---- MODULE Spec2Model ----
(***************************************************************************)
(* Model of the Checkout.com API client gojuno/go-checkout.                *)
(*                                                                         *)
(*   checkout.Client      New, the options and Call, the call dispatcher   *)
(*   payment.Client       Create, Void, Refund, Capture (entity client)    *)
(*                                                                         *)
(* Every caller (goroutine) owns one call frame: the operation it runs,    *)
(* the arguments of Call, the request handed to the transport, the         *)
(* transport's response and what Call and the entity operation return.     *)
(* The HTTP transport, the server behind it and the JSON codec's inputs    *)
(* are the environment: their answers are drawn from small sets.           *)
(***************************************************************************)
EXTENDS Integers, Sequences, FiniteSets, TLC

----------------------------------------------------------------------------
(* Bounds of the model *)

\* number of callers holding a call frame
NumCallers == 2
\* longest option list given to New
MaxOptions == 2

Procs == 1..NumCallers

----------------------------------------------------------------------------
(* net/http status codes the code names *)

StatusOK == 200
StatusCreated == 201
StatusAccepted == 202
StatusBadRequest == 400
StatusUnauthorized == 401
StatusForbidden == 403
StatusNotFound == 404
StatusUnprocessableEntity == 422
StatusTooManyRequests == 429
StatusInternalServerError == 500

\* the status codes the modelled server answers with
Statuses ==
    { StatusOK, StatusCreated, StatusAccepted, StatusBadRequest,
      StatusUnauthorized, StatusForbidden, StatusNotFound,
      StatusUnprocessableEntity, StatusTooManyRequests,
      StatusInternalServerError, 503 }

----------------------------------------------------------------------------
(* Constants of package checkout *)

EndpointLive == "https://api.checkout.com"
EndpointSandbox == "https://api.sandbox.checkout.com"
headerAuthorization == "Authorization"
headerIdempotency == "Cko-Idempotency-Key"
headerContentType == "Content-Type"
paymentsPath == "/payments"

----------------------------------------------------------------------------
(* Errors.  An error value is a record with a kind; NilErr is Go's nil.    *)

NilErr == [kind |-> "nil"]

\* an error of the standard library or of the transport (errors.New)
NewError(text) == [kind |-> "raw", text |-> text]

\* github.com/pkg/errors: Wrap and Wrapf annotate a cause with a message
Wrap(err, msg) == [kind |-> "wrapped", msg |-> msg, cause |-> err]

\* github.com/pkg/errors: Cause unwraps down to the innermost error
RECURSIVE Cause(_)
Cause(err) == IF err.kind = "wrapped" THEN Cause(err.cause) ELSE err

\* a nil *ErrorResponse
NilResponse == [nil |-> TRUE]

\* checkout.ServerError{StatusCode, Response}
ServerError(statusCode, response) ==
    [kind |-> "ServerError", StatusCode |-> statusCode, Response |-> response]

\* checkout.UnknownError{StatusCode}
UnknownError(statusCode) == [kind |-> "UnknownError", StatusCode |-> statusCode]

\* payment.Error{Reason}
PaymentError(reason) == [kind |-> "payment.Error", Reason |-> reason]

ErrPaymentNotFound == PaymentError("Payment not found")
ErrVoidNotAllowed == PaymentError("Void not allowed")
ErrRefundNotAllowed == PaymentError("Refund not allowed")
ErrCaptureNotAllowed == PaymentError("Capture not allowed")

----------------------------------------------------------------------------
(* Go values handed to Call as interface{}.  type "nil" is the nil         *)
(* interface; nilptr marks a typed nil pointer (a nil VoidParams pointer),  *)
(* which is a non-nil interface value.                                     *)

NoVal == [none |-> TRUE]
NilObj == [type |-> "nil", nilptr |-> FALSE, val |-> NoVal]
Obj(type, val) == [type |-> type, nilptr |-> FALSE, val |-> val]
NilPtr(type) == [type |-> type, nilptr |-> TRUE, val |-> NoVal]

\* a nil map[string]interface{}, and one holding a value JSON cannot encode
NilMetadata == [nil |-> TRUE]
BadMetadata == [nil |-> FALSE, unsupported |-> TRUE]

----------------------------------------------------------------------------
(* encoding/json, Marshal: the JSON text of the structs of the repository  *)

Quote(s) == "\"" \o s \o "\""
Member(key, encoded) == Quote(key) \o ":" \o encoded

\* a member tagged omitempty is left out when its value is the zero value
OmitEmptyString(key, s) == IF s = "" THEN "" ELSE Member(key, Quote(s))
OmitEmptyUint(key, n) == IF n = 0 THEN "" ELSE Member(key, ToString(n))

RECURSIVE Join(_)
Join(members) ==
    IF members = <<>> THEN ""
    ELSE IF Len(members) = 1 THEN Head(members)
    ELSE Head(members) \o "," \o Join(Tail(members))

JSONObject(members) ==
    "{" \o Join(SelectSeq(members, LAMBDA m : m # "")) \o "}"

\* json.Marshal fails on a value of an unsupported type
UnsupportedTypeError == NewError("json: unsupported type: chan int")

MarshalOK(bytes) == [err |-> NilErr, bytes |-> bytes]
MarshalFailed == [err |-> UnsupportedTypeError, bytes |-> ""]

Marshal(obj) ==
    IF obj.nilptr THEN MarshalOK("null")
    ELSE CASE obj.type = "request" ->
                MarshalOK(JSONObject(<<Member("field", Quote(obj.val.Field))>>))
           [] obj.type = "CreateParams" ->
                MarshalOK(JSONObject(<<
                    Member("source", JSONObject(<<
                        Member("type", Quote(obj.val.Source.Type)),
                        OmitEmptyString("id", obj.val.Source.ID),
                        OmitEmptyString("token", obj.val.Source.Token)>>)),
                    Member("amount", ToString(obj.val.Amount)),
                    Member("currency", Quote(obj.val.Currency)),
                    OmitEmptyString("reference", obj.val.Reference)>>))
           [] obj.type = "VoidParams" ->
                IF ~obj.val.Metadata.nil THEN MarshalFailed
                ELSE MarshalOK(JSONObject(<<
                    OmitEmptyString("reference", obj.val.Reference)>>))
           [] obj.type \in {"RefundParams", "CaptureParams"} ->
                IF ~obj.val.Metadata.nil THEN MarshalFailed
                ELSE MarshalOK(JSONObject(<<
                    OmitEmptyUint("amount", obj.val.Amount),
                    OmitEmptyString("reference", obj.val.Reference)>>))
           [] OTHER -> MarshalFailed

----------------------------------------------------------------------------
(* encoding/json, Unmarshal.  The response bodies the modelled server      *)
(* sends, and the JSON document each of them parses to.                    *)

BodyEnvelope ==
    "{\"request_id\":\"r1\",\"error_type\":\"request_invalid\",\"error_codes\":[\"c1\"]}"
BodyResponse == "{\"field\":\"response_value\"}"
BodyPayment == "{\"id\":\"pay_1\",\"status\":\"Authorized\",\"approved\":true}"
BodyMismatch == "{\"request_id\":7,\"field\":7,\"id\":7}"
BodyEmpty == ""

Bodies == {BodyEnvelope, BodyResponse, BodyPayment, BodyMismatch, BodyEmpty}

JString(s) == [t |-> "string", v |-> s]
JNumber(n) == [t |-> "number", v |-> n]
JBool(b) == [t |-> "bool", v |-> b]
JStrings(seq) == [t |-> "strings", v |-> seq]

SyntaxError == NewError("unexpected end of JSON input")
UnmarshalTypeError == NewError("json: cannot unmarshal number into Go struct field of type string")

InvalidJSON == [members |-> [k \in {} |-> NoVal], valid |-> FALSE]
JSONDocument(members) == [members |-> members, valid |-> TRUE]

ParseJSON(body) ==
    CASE body = BodyEnvelope ->
            JSONDocument([k \in {"request_id", "error_type", "error_codes"} |->
                CASE k = "request_id" -> JString("r1")
                  [] k = "error_type" -> JString("request_invalid")
                  [] OTHER -> JStrings(<<"c1">>)])
      [] body = BodyResponse ->
            JSONDocument([k \in {"field"} |-> JString("response_value")])
      [] body = BodyPayment ->
            JSONDocument([k \in {"id", "status", "approved"} |->
                CASE k = "id" -> JString("pay_1")
                  [] k = "status" -> JString("Authorized")
                  [] OTHER -> JBool(TRUE)])
      [] body = BodyMismatch ->
            JSONDocument([k \in {"request_id", "field", "id"} |-> JNumber(7)])
      [] OTHER -> InvalidJSON

\* the json tags of the decode targets: Go field -> <<JSON key, JSON type>>
FieldTag(type, field) ==
    CASE type = "ErrorResponse" /\ field = "RequestID" -> <<"request_id", "string">>
      [] type = "ErrorResponse" /\ field = "ErrorType" -> <<"error_type", "string">>
      [] type = "ErrorResponse" /\ field = "ErrorCodes" -> <<"error_codes", "strings">>
      [] type = "response" /\ field = "Field" -> <<"field", "string">>
      [] type = "Payment" /\ field = "ID" -> <<"id", "string">>
      [] type = "Payment" /\ field = "Status" -> <<"status", "string">>
      [] type = "Payment" /\ field = "Approved" -> <<"approved", "bool">>

\* zero values of the decode targets
ZeroErrorResponse ==
    Obj("ErrorResponse", [RequestID |-> "", ErrorType |-> "", ErrorCodes |-> <<>>])
ZeroResponse == Obj("response", [Field |-> ""])
ZeroPayment == Obj("Payment", [ID |-> "", Status |-> "", Approved |-> FALSE])

\* json.Unmarshal(body, &obj): members present in the document and of the
\* field's type are stored, the other fields keep their value; a member of
\* another type is reported after the rest was decoded.
Unmarshal(body, obj) ==
    LET doc == ParseJSON(body)
        present(f) == FieldTag(obj.type, f)[1] \in DOMAIN doc.members
        fits(f) == doc.members[FieldTag(obj.type, f)[1]].t = FieldTag(obj.type, f)[2]
    IN  IF ~doc.valid THEN [err |-> SyntaxError, obj |-> obj]
        ELSE [err |-> IF \E f \in DOMAIN obj.val : present(f) /\ ~fits(f)
                      THEN UnmarshalTypeError ELSE NilErr,
              obj |-> [obj EXCEPT !.val =
                        [f \in DOMAIN obj.val |->
                            IF present(f) /\ fits(f)
                            THEN doc.members[FieldTag(obj.type, f)[1]].v
                            ELSE obj.val[f]]]]

----------------------------------------------------------------------------
(* checkout.Client and its construction *)

HTTPClients == {"http.DefaultClient", "httpClientMock"}

OptHTTPClient(httpClient) == [option |-> "OptHTTPClient", arg |-> httpClient]
OptSecretKey(secretKey) == [option |-> "OptSecretKey", arg |-> secretKey]
OptEndpoint(endpoint) == [option |-> "OptEndpoint", arg |-> endpoint]

\* option(c)
ApplyOption(c, o) ==
    CASE o.option = "OptHTTPClient" -> [c EXCEPT !.httpClient = o.arg]
      [] o.option = "OptSecretKey" -> [c EXCEPT !.secretKey = o.arg]
      [] o.option = "OptEndpoint" -> [c EXCEPT !.endpoint = o.arg]

\* mutant of ApplyOptions: the options applied from the last to the first
RECURSIVE ApplyOptions_Backwards(_, _)
ApplyOptions_Backwards(c, options) ==
    IF options = <<>> THEN c
    ELSE ApplyOption(ApplyOptions_Backwards(c, Tail(options)), Head(options))

\* for _, option := range options { option(c) }
RECURSIVE ApplyOptions(_, _)
ApplyOptions(c, options) ==
    IF options = <<>> THEN c
    ELSE ApplyOptions(ApplyOption(c, Head(options)), Tail(options))

New(options) ==
    ApplyOptions([httpClient |-> "http.DefaultClient",
                  secretKey |-> "",
                  endpoint |-> EndpointLive], options)

\* the options the modelled programs pass to New
Options ==
    { OptSecretKey("secret_key"), OptSecretKey("your_secret_key"),
      OptHTTPClient("httpClientMock"), OptEndpoint(EndpointSandbox) }

OptionLists == UNION { [1..n -> Options] : n \in 0..MaxOptions }

----------------------------------------------------------------------------
(* net/http: requests and responses *)

NoBody == [nil |-> TRUE]
NewBuffer(bytes) == [nil |-> FALSE, bytes |-> bytes]

NoRequest == [nil |-> TRUE]
NoHeader == [h \in {} |-> ""]

\* http.Header.Set
HeaderSet(header, key, value) ==
    [h \in DOMAIN header \cup {key} |-> IF h = key THEN value ELSE header[h]]

\* http.Header.Get: "" when the header is absent
HeaderGet(header, key) == IF key \in DOMAIN header THEN header[key] ELSE ""

\* methods http.NewRequest accepts: a method is a token; the empty method
\* stands for GET
ValidMethod(method) == method \in {"GET", "POST", "PUT", "PATCH", "DELETE", ""}

InvalidMethodError == NewError("net/http: invalid method")

\* http.NewRequest(method, url, body)
NewRequest(method, url, body) ==
    IF ~ValidMethod(method) THEN [err |-> InvalidMethodError, req |-> NoRequest]
    ELSE [err |-> NilErr,
          req |-> [nil |-> FALSE,
                   Method |-> IF method = "" THEN "GET" ELSE method,
                   URL |-> url,
                   Header |-> NoHeader,
                   Body |-> body]]

\* what the transport and the response body can fail with
TransportError == NewError("do_error")
ReadError == NewError("unexpected EOF")
CloseError == NewError("close_error")

NoResponse == [nil |-> TRUE]

\* the responses HTTPClient.Do can return: a status, a body, and whether
\* reading or closing that body fails
Responses ==
    [nil : {FALSE}, StatusCode : Statuses, Body : Bodies,
     readErr : {NilErr, ReadError}, closeErr : {NilErr, CloseError}]

\* ioutil.ReadAll(resp.Body)
ReadAll(resp) ==
    IF resp.readErr # NilErr THEN [err |-> resp.readErr, bytes |-> ""]
    ELSE [err |-> NilErr, bytes |-> resp.Body]

----------------------------------------------------------------------------
(* Client.Call, by its parts *)

\* mutant of CallRequestBody: the marshaled bytes never reach the request
CallRequestBody_Dropped(reqObj) ==
    IF reqObj # NilObj /\ Marshal(reqObj).err # NilErr
    THEN [err |-> Wrap(Marshal(reqObj).err, "failed to marshal request body"),
          reqBody |-> NoBody]
    ELSE [err |-> NilErr, reqBody |-> NoBody]

\* mutant of CallRequestBody: the error of json.Marshal ignored
CallRequestBody_IgnoreError(reqObj) ==
    IF reqObj # NilObj
    THEN [err |-> NilErr, reqBody |-> NewBuffer(Marshal(reqObj).bytes)]
    ELSE [err |-> NilErr, reqBody |-> NoBody]

\* the request body: reqObj is marshaled unless it is the nil interface
CallRequestBody(reqObj) ==
    IF reqObj # NilObj
    THEN LET m == Marshal(reqObj)
         IN  IF m.err # NilErr
             THEN [err |-> Wrap(m.err, "failed to marshal request body"),
                   reqBody |-> NoBody]
             ELSE [err |-> NilErr, reqBody |-> NewBuffer(m.bytes)]
    ELSE [err |-> NilErr, reqBody |-> NoBody]

\* mutant of CallHeaders: the idempotency header set whatever the key
CallHeaders_AlwaysKey(secretKey, idempotencyKey) ==
    HeaderSet(HeaderSet(HeaderSet(NoHeader, headerContentType, "application/json"),
                        headerAuthorization, secretKey),
              headerIdempotency, idempotencyKey)

\* the headers Call sets on the request
CallHeaders(secretKey, idempotencyKey) ==
    LET h1 == HeaderSet(NoHeader, headerContentType, "application/json")
        h2 == HeaderSet(h1, headerAuthorization, secretKey)
    IN  IF idempotencyKey # ""
        THEN HeaderSet(h2, headerIdempotency, idempotencyKey)
        ELSE h2

\* mutant of CallRequest: the secret key sent as a bearer token
CallRequest_Bearer(c, method, path, idempotencyKey, reqBody) ==
    LET r == NewRequest(method, c.endpoint \o path, reqBody)
    IN  IF r.err # NilErr
        THEN [err |-> Wrap(r.err, "failed to create HTTP request"),
              req |-> NoRequest]
        ELSE [err |-> NilErr,
              req |-> [r.req EXCEPT
                         !.Header = CallHeaders("Bearer " \o c.secretKey,
                                                idempotencyKey)]]

\* the request Call builds for the transport
CallRequest(c, method, path, idempotencyKey, reqBody) ==
    LET r == NewRequest(method, c.endpoint \o path, reqBody)
    IN  IF r.err # NilErr
        THEN [err |-> Wrap(r.err, "failed to create HTTP request"),
              req |-> NoRequest]
        ELSE [err |-> NilErr,
              req |-> [r.req EXCEPT
                         !.Header = CallHeaders(c.secretKey, idempotencyKey)]]

\* mutant of IsBareServerErrorStatus: 429 left to the case that decodes the
\* envelope, where the code names it a second time
IsBareServerErrorStatus_Only401(statusCode) ==
    statusCode = StatusUnauthorized

\* first case of the switch on statuses >= 400: a ServerError without envelope
IsBareServerErrorStatus(statusCode) ==
    statusCode = StatusUnauthorized \/ statusCode = StatusTooManyRequests

\* mutants of IsEnvelopeStatus: the validation status 422 forgotten; every
\* status >= 400 taken for an error with an envelope
IsEnvelopeStatus_No422(statusCode) ==
    \/ statusCode >= StatusInternalServerError
    \/ statusCode = StatusTooManyRequests

IsEnvelopeStatus_All4xx(statusCode) == statusCode >= StatusBadRequest

\* second case of the switch: the body is decoded into an ErrorResponse
IsEnvelopeStatus(statusCode) ==
    \/ statusCode >= StatusInternalServerError
    \/ statusCode = StatusTooManyRequests
    \/ statusCode = StatusUnprocessableEntity

Result(statusCode, callErr, respObj, decodes) ==
    [statusCode |-> statusCode, callErr |-> callErr,
     respObj |-> respObj, decodes |-> decodes]

\* mutant of CallErrorStatus: the statuses left to the entity clients
\* answered with the opaque UnknownError
CallErrorStatus_Unknown(statusCode, respBody, respObj) ==
    CASE IsBareServerErrorStatus(statusCode) ->
            Result(statusCode, ServerError(statusCode, NilResponse), respObj, <<>>)
      [] ~IsBareServerErrorStatus(statusCode) /\ IsEnvelopeStatus(statusCode) ->
            LET u == Unmarshal(respBody, ZeroErrorResponse)
            IN  IF u.err # NilErr
                THEN Result(statusCode,
                            Wrap(u.err,
                                 "failed to unmarshal response error with status "
                                 \o ToString(statusCode) \o ": " \o respBody),
                            respObj, <<"errorResponse">>)
                ELSE Result(statusCode, ServerError(statusCode, u.obj),
                            respObj, <<"errorResponse">>)
      [] OTHER ->
            Result(statusCode, UnknownError(statusCode), respObj, <<>>)

\* mutant of CallErrorStatus: the ServerError of 401 and 429 built without
\* its StatusCode
CallErrorStatus_NoCode(statusCode, respBody, respObj) ==
    CASE IsBareServerErrorStatus(statusCode) ->
            Result(statusCode, ServerError(0, NilResponse), respObj, <<>>)
      [] ~IsBareServerErrorStatus(statusCode) /\ IsEnvelopeStatus(statusCode) ->
            LET u == Unmarshal(respBody, ZeroErrorResponse)
            IN  IF u.err # NilErr
                THEN Result(statusCode,
                            Wrap(u.err,
                                 "failed to unmarshal response error with status "
                                 \o ToString(statusCode) \o ": " \o respBody),
                            respObj, <<"errorResponse">>)
                ELSE Result(statusCode, ServerError(statusCode, u.obj),
                            respObj, <<"errorResponse">>)
      [] OTHER ->
            Result(statusCode, NilErr, respObj, <<>>)

\* the switch on a status >= 400, on the body read from the response: the
\* error Call returns and the targets json.Unmarshal was run on
CallErrorStatus(statusCode, respBody, respObj) ==
    CASE IsBareServerErrorStatus(statusCode) ->
            Result(statusCode, ServerError(statusCode, NilResponse), respObj, <<>>)
      [] ~IsBareServerErrorStatus(statusCode) /\ IsEnvelopeStatus(statusCode) ->
            LET u == Unmarshal(respBody, ZeroErrorResponse)
            IN  IF u.err # NilErr
                THEN Result(statusCode,
                            Wrap(u.err,
                                 "failed to unmarshal response error with status "
                                 \o ToString(statusCode) \o ": " \o respBody),
                            respObj, <<"errorResponse">>)
                ELSE Result(statusCode, ServerError(statusCode, u.obj),
                            respObj, <<"errorResponse">>)
      [] OTHER ->
            \* all other 4xx codes are left to the entity clients
            Result(statusCode, NilErr, respObj, <<>>)

\* mutant of CallDecode: success returned without decoding the body
CallDecode_Skipped(statusCode, respBody, respObj) ==
    Result(statusCode, NilErr, respObj, <<>>)

\* mutant of CallDecode: the error of json.Unmarshal ignored
CallDecode_IgnoreError(statusCode, respBody, respObj) ==
    IF respObj # NilObj
    THEN Result(statusCode, NilErr, Unmarshal(respBody, respObj).obj, <<"respObj">>)
    ELSE Result(statusCode, NilErr, respObj, <<>>)

\* a status < 400: the body is decoded into respObj if one was given
CallDecode(statusCode, respBody, respObj) ==
    IF respObj # NilObj
    THEN LET u == Unmarshal(respBody, respObj)
         IN  IF u.err # NilErr
             THEN Result(statusCode,
                         Wrap(u.err, "failed to unmarshal response body: " \o respBody),
                         u.obj, <<"respObj">>)
             ELSE Result(statusCode, NilErr, u.obj, <<"respObj">>)
    ELSE Result(statusCode, NilErr, respObj, <<>>)

\* the interpretation of a response whose body was read: the result of Call
\* before the deferred close and the value respObj points to afterwards
CallInterpret(statusCode, respBody, respObj) ==
    IF statusCode >= StatusBadRequest
    THEN CallErrorStatus(statusCode, respBody, respObj)
    ELSE CallDecode(statusCode, respBody, respObj)

\* the deferred function: an error of Body.Close replaces the named result
DeferredClose(callErr, closeErr) ==
    IF closeErr # NilErr THEN closeErr ELSE callErr

\* mutant of CallTransportFailed: the transport's error returned as it is
CallTransportFailed_Unwrapped(err) == [statusCode |-> 0, callErr |-> err]

\* the transport returned an error: Call returns before any response exists
CallTransportFailed(err) ==
    [statusCode |-> 0, callErr |-> Wrap(err, "failed to do request")]

\* mutant of CallResponse: a failed read of the body reported with status 0,
\* like the failures before the response
CallResponse_ZeroOnReadError(resp, respObj) ==
    LET read == ReadAll(resp)
        r == IF read.err # NilErr
             THEN Result(0, Wrap(read.err, "failed to read response body"),
                         respObj, <<>>)
             ELSE CallInterpret(resp.StatusCode, read.bytes, respObj)
    IN  [r EXCEPT !.callErr = DeferredClose(r.callErr, resp.closeErr)]

\* mutant of CallResponse: the error of ioutil.ReadAll ignored, the bytes read
\* so far interpreted
CallResponse_ReadErrorIgnored(resp, respObj) ==
    LET read == ReadAll(resp)
        r == CallInterpret(resp.StatusCode, read.bytes, respObj)
    IN  [r EXCEPT !.callErr = DeferredClose(r.callErr, resp.closeErr)]

\* Call from the transport's response on
CallResponse(resp, respObj) ==
    LET read == ReadAll(resp)
        r == IF read.err # NilErr
             THEN Result(resp.StatusCode,
                         Wrap(read.err, "failed to read response body"),
                         respObj, <<>>)
             ELSE CallInterpret(resp.StatusCode, read.bytes, respObj)
    IN  [r EXCEPT !.callErr = DeferredClose(r.callErr, resp.closeErr)]

----------------------------------------------------------------------------
(* payment.Client: the mapping of the dispatcher's result *)

NoPayment == NilObj

\* mutant of CreateResult: 200 taken for a success like 201 and 202
CreateResult_With200(statusCode, err, payment) ==
    IF err # NilErr THEN [err |-> err, payment |-> NoPayment]
    ELSE IF statusCode \in {StatusOK, StatusCreated, StatusAccepted}
         THEN [err |-> NilErr, payment |-> payment]
         ELSE [err |-> UnknownError(statusCode), payment |-> NoPayment]

CreateResult(statusCode, err, payment) ==
    IF err # NilErr THEN [err |-> err, payment |-> NoPayment]
    ELSE IF statusCode \in {StatusCreated, StatusAccepted}
         THEN [err |-> NilErr, payment |-> payment]
         ELSE [err |-> UnknownError(statusCode), payment |-> NoPayment]

\* mutant of VoidResult: the status looked at before the dispatcher's error
VoidResult_StatusFirst(statusCode, err) ==
    CASE statusCode = StatusAccepted -> err
      [] statusCode = StatusForbidden -> ErrVoidNotAllowed
      [] statusCode = StatusNotFound -> ErrPaymentNotFound
      [] OTHER -> IF err # NilErr THEN err ELSE UnknownError(statusCode)

VoidResult(statusCode, err) ==
    IF err # NilErr THEN err
    ELSE CASE statusCode = StatusAccepted -> NilErr
           [] statusCode = StatusForbidden -> ErrVoidNotAllowed
           [] statusCode = StatusNotFound -> ErrPaymentNotFound
           [] OTHER -> UnknownError(statusCode)

\* mutant of RefundResult: the switch copied from Capture with its error
RefundResult_CaptureError(statusCode, err) ==
    IF err # NilErr THEN err
    ELSE CASE statusCode = StatusAccepted -> NilErr
           [] statusCode = StatusForbidden -> ErrCaptureNotAllowed
           [] statusCode = StatusNotFound -> ErrPaymentNotFound
           [] OTHER -> UnknownError(statusCode)

RefundResult(statusCode, err) ==
    IF err # NilErr THEN err
    ELSE CASE statusCode = StatusAccepted -> NilErr
           [] statusCode = StatusForbidden -> ErrRefundNotAllowed
           [] statusCode = StatusNotFound -> ErrPaymentNotFound
           [] OTHER -> UnknownError(statusCode)

\* mutant of CaptureResult: the switch copied from Void with its error
CaptureResult_VoidError(statusCode, err) ==
    IF err # NilErr THEN err
    ELSE CASE statusCode = StatusAccepted -> NilErr
           [] statusCode = StatusForbidden -> ErrVoidNotAllowed
           [] statusCode = StatusNotFound -> ErrPaymentNotFound
           [] OTHER -> UnknownError(statusCode)

CaptureResult(statusCode, err) ==
    IF err # NilErr THEN err
    ELSE CASE statusCode = StatusAccepted -> NilErr
           [] statusCode = StatusForbidden -> ErrCaptureNotAllowed
           [] statusCode = StatusNotFound -> ErrPaymentNotFound
           [] OTHER -> UnknownError(statusCode)

----------------------------------------------------------------------------
(* State *)

VARIABLES
    client,     \* the checkout.Client: httpClient, endpoint, secretKey
    pc,         \* per caller: where its operation stands
    op,         \* per caller: the operation it invoked and its arguments
    args,       \* per caller: the arguments of Caller.Call
    req,        \* per caller: the request Call has built
    sent,       \* per caller: the requests handed to HTTPClient.Do, in order
    doErr,      \* per caller: the error HTTPClient.Do returned
    resp,       \* per caller: the response HTTPClient.Do returned
    closed,     \* per caller: how often resp.Body.Close was called
    decodes,    \* per caller: the targets json.Unmarshal was run on
    respObj,    \* per caller: the value the respObj argument points to
    ret,        \* per caller: what Caller.Call returned
    out         \* per caller: what the entity operation returned

vars ==
    <<client, pc, op, args, req, sent, doErr, resp, closed, decodes, respObj, ret, out>>

NoOp == [name |-> "none", caller |-> "none"]
NoArgs == [nil |-> TRUE]
NoRet == [nil |-> TRUE]
NoOut == [nil |-> TRUE]

Returns(statusCode, callErr) ==
    [nil |-> FALSE, statusCode |-> statusCode, callErr |-> callErr]

Init ==
    /\ client \in { New(options) : options \in OptionLists }
    /\ pc = [p \in Procs |-> "idle"]
    /\ op = [p \in Procs |-> NoOp]
    /\ args = [p \in Procs |-> NoArgs]
    /\ req = [p \in Procs |-> NoRequest]
    /\ sent = [p \in Procs |-> <<>>]
    /\ doErr = [p \in Procs |-> NilErr]
    /\ resp = [p \in Procs |-> NoResponse]
    /\ closed = [p \in Procs |-> 0]
    /\ decodes = [p \in Procs |-> <<>>]
    /\ respObj = [p \in Procs |-> NilObj]
    /\ ret = [p \in Procs |-> NoRet]
    /\ out = [p \in Procs |-> NoOut]

\* the callers of this specification run their operations one after another
NoCallInFlight == \A q \in Procs : pc[q] = "idle"

----------------------------------------------------------------------------
(* The arguments the modelled callers pass *)

Methods == {"POST", "BAD METHOD"}
Paths == {"/somepath"}
IdempotencyKeys == {"", "idempotency_key"}
PaymentIDs == {"pay_1", "pay_2"}
Callers == {"client", "mock"}

RequestObjects ==
    { NilObj, Obj("request", [Field |-> "request_value"]), Obj("chan", NoVal) }
ResponseTargets == { NilObj, ZeroResponse }

CreateParamsValues ==
    { NilPtr("CreateParams"),
      Obj("CreateParams",
          [Source |-> [Type |-> "id", ID |-> "src_1", Token |-> ""],
           Amount |-> 2000, Currency |-> "USD", Reference |-> ""]) }
VoidParamsValues ==
    { NilPtr("VoidParams"),
      Obj("VoidParams", [Reference |-> "ref_1", Metadata |-> NilMetadata]),
      Obj("VoidParams", [Reference |-> "", Metadata |-> BadMetadata]) }
RefundParamsValues ==
    { NilPtr("RefundParams"),
      Obj("RefundParams", [Amount |-> 100, Reference |-> "", Metadata |-> NilMetadata]) }
CaptureParamsValues ==
    { NilPtr("CaptureParams"),
      Obj("CaptureParams", [Amount |-> 0, Reference |-> "ref_1", Metadata |-> NilMetadata]) }

CallArgs(method, path, idempotencyKey, reqObj, target) ==
    [nil |-> FALSE, method |-> method, reqObj |-> reqObj,
     idempotencyKey |-> idempotencyKey, path |-> path, respObj |-> target]

\* a caller enters Caller.Call with the given arguments
Enter(p, operation, a) ==
    /\ pc[p] = "idle"
    /\ NoCallInFlight
    /\ pc' = [pc EXCEPT ![p] = "call"]
    /\ op' = [op EXCEPT ![p] = operation]
    /\ args' = [args EXCEPT ![p] = a]
    /\ respObj' = [respObj EXCEPT ![p] = a.respObj]
    /\ UNCHANGED <<client, req, sent, doErr, resp, closed, decodes, ret, out>>

----------------------------------------------------------------------------
(* checkout.New *)

\* the program constructs the client it uses from now on
NewClient(p) ==
    /\ pc[p] = "idle"
    /\ NoCallInFlight
    /\ \E options \in OptionLists :
          /\ client' = New(options)
          /\ args' = [args EXCEPT ![p] = [nil |-> FALSE, options |-> options]]
    /\ op' = [op EXCEPT ![p] = [name |-> "New", caller |-> "none"]]
    /\ pc' = [pc EXCEPT ![p] = "done"]
    /\ UNCHANGED <<req, sent, doErr, resp, closed, decodes, respObj, ret, out>>

----------------------------------------------------------------------------
(* Client.Call *)

\* the program calls client.Call itself
Call(p) ==
    \E method \in Methods, path \in Paths, idempotencyKey \in IdempotencyKeys,
       reqObj \in RequestObjects, target \in ResponseTargets :
        Enter(p, [name |-> "Call", caller |-> "client"],
              CallArgs(method, path, idempotencyKey, reqObj, target))

\* Call up to the request: marshal the body, build the request, set headers
CallPrepare(p) ==
    /\ pc[p] = "call"
    /\ op[p].caller = "client"
    /\ LET a == args[p]
           b == CallRequestBody(a.reqObj)
           r == CallRequest(client, a.method, a.path, a.idempotencyKey, b.reqBody)
       IN  IF b.err # NilErr
           THEN /\ ret' = [ret EXCEPT ![p] = Returns(0, b.err)]
                /\ pc' = [pc EXCEPT ![p] = "returned"]
                /\ UNCHANGED req
           ELSE IF r.err # NilErr
           THEN /\ ret' = [ret EXCEPT ![p] = Returns(0, r.err)]
                /\ pc' = [pc EXCEPT ![p] = "returned"]
                /\ UNCHANGED req
           ELSE /\ req' = [req EXCEPT ![p] = r.req]
                /\ pc' = [pc EXCEPT ![p] = "do"]
                /\ UNCHANGED ret
    /\ UNCHANGED <<client, op, args, sent, doErr, resp, closed, decodes, respObj, out>>

\* mutant of CallDo: a failed request is sent again
CallDo_Retry(p) ==
    /\ pc[p] = "do"
    /\ sent' = [sent EXCEPT ![p] = Append(@, req[p])]
    /\ \/ /\ doErr' = [doErr EXCEPT ![p] = TransportError]
          /\ UNCHANGED <<pc, resp, ret>>
       \/ /\ \E r \in Responses : resp' = [resp EXCEPT ![p] = r]
          /\ pc' = [pc EXCEPT ![p] = "response"]
          /\ UNCHANGED <<doErr, ret>>
    /\ UNCHANGED <<client, op, args, req, closed, decodes, respObj, out>>

\* c.httpClient.Do(req): the transport fails, or answers with a response
CallDo(p) ==
    /\ pc[p] = "do"
    /\ sent' = [sent EXCEPT ![p] = Append(@, req[p])]
    /\ \/ /\ doErr' = [doErr EXCEPT ![p] = TransportError]
          /\ LET r == CallTransportFailed(TransportError)
             IN  ret' = [ret EXCEPT ![p] = Returns(r.statusCode, r.callErr)]
          /\ pc' = [pc EXCEPT ![p] = "returned"]
          /\ UNCHANGED resp
       \/ /\ \E r \in Responses : resp' = [resp EXCEPT ![p] = r]
          /\ pc' = [pc EXCEPT ![p] = "response"]
          /\ UNCHANGED <<doErr, ret>>
    /\ UNCHANGED <<client, op, args, req, closed, decodes, respObj, out>>

\* mutant of CallFinish: the response kept in a buffer shared by all callers,
\* so that a caller may interpret the response to another caller's request
CallFinish_SharedResponse(p) ==
    /\ pc[p] = "response"
    /\ \E q \in Procs :
          /\ resp[q] # NoResponse
          /\ LET r == CallResponse(resp[q], respObj[p])
             IN  /\ ret' = [ret EXCEPT ![p] = Returns(r.statusCode, r.callErr)]
                 /\ respObj' = [respObj EXCEPT ![p] = r.respObj]
                 /\ decodes' = [decodes EXCEPT ![p] = r.decodes]
    /\ closed' = [closed EXCEPT ![p] = @ + 1]
    /\ pc' = [pc EXCEPT ![p] = "returned"]
    /\ UNCHANGED <<client, op, args, req, sent, doErr, resp, out>>

\* mutant of CallFinish: the close deferred only after the body was read, so
\* that a failed read returns without closing the body
CallFinish_CloseAfterRead(p) ==
    /\ pc[p] = "response"
    /\ LET read == ReadAll(resp[p])
           r == CallResponse(resp[p], respObj[p])
       IN  IF read.err # NilErr
           THEN /\ ret' = [ret EXCEPT ![p] =
                            Returns(resp[p].StatusCode,
                                    Wrap(read.err, "failed to read response body"))]
                /\ UNCHANGED <<respObj, decodes, closed>>
           ELSE /\ ret' = [ret EXCEPT ![p] = Returns(r.statusCode, r.callErr)]
                /\ respObj' = [respObj EXCEPT ![p] = r.respObj]
                /\ decodes' = [decodes EXCEPT ![p] = r.decodes]
                /\ closed' = [closed EXCEPT ![p] = @ + 1]
    /\ pc' = [pc EXCEPT ![p] = "returned"]
    /\ UNCHANGED <<client, op, args, req, sent, doErr, resp, out>>

\* Call from the response on: read the body, interpret the status, decode,
\* and close the body when Call returns
CallFinish(p) ==
    /\ pc[p] = "response"
    /\ LET r == CallResponse(resp[p], respObj[p])
       IN  /\ ret' = [ret EXCEPT ![p] = Returns(r.statusCode, r.callErr)]
           /\ respObj' = [respObj EXCEPT ![p] = r.respObj]
           /\ decodes' = [decodes EXCEPT ![p] = r.decodes]
    /\ closed' = [closed EXCEPT ![p] = @ + 1]
    /\ pc' = [pc EXCEPT ![p] = "returned"]
    /\ UNCHANGED <<client, op, args, req, sent, doErr, resp, out>>

\* a Caller other than checkout.Client (payment.NewClient takes any Caller):
\* it returns any status and error
MockErrors == {NilErr, NewError("caller_error")}

CallerMock(p) ==
    /\ pc[p] = "call"
    /\ op[p].caller = "mock"
    /\ \E statusCode \in Statuses \cup {0}, err \in MockErrors :
          ret' = [ret EXCEPT ![p] = Returns(statusCode, err)]
    /\ pc' = [pc EXCEPT ![p] = "returned"]
    /\ UNCHANGED <<client, op, args, req, sent, doErr, resp, closed, decodes, respObj, out>>

----------------------------------------------------------------------------
(* payment.Client *)

Operation(name, caller, paymentID, idempotencyKey, params) ==
    [idempotencyKey |-> idempotencyKey, name |-> name, caller |-> caller,
     paymentID |-> paymentID, params |-> params]

Create(p) ==
    \E caller \in Callers, idempotencyKey \in IdempotencyKeys,
       params \in CreateParamsValues :
        Enter(p, Operation("Create", caller, "", idempotencyKey, params),
              CallArgs("POST", paymentsPath, idempotencyKey, params, ZeroPayment))

Void(p) ==
    \E caller \in Callers, paymentID \in PaymentIDs, params \in VoidParamsValues :
        Enter(p, Operation("Void", caller, paymentID, "", params),
              CallArgs("POST", paymentsPath \o "/" \o paymentID \o "/voids",
                       "", params, NilObj))

\* mutant of Refund: the idempotency key not handed on, as in Void and Capture
Refund_NoKey(p) ==
    \E caller \in Callers, paymentID \in PaymentIDs,
       idempotencyKey \in IdempotencyKeys, params \in RefundParamsValues :
        Enter(p, Operation("Refund", caller, paymentID, idempotencyKey, params),
              CallArgs("POST", paymentsPath \o "/" \o paymentID \o "/refunds",
                       "", params, NilObj))

Refund(p) ==
    \E caller \in Callers, paymentID \in PaymentIDs,
       idempotencyKey \in IdempotencyKeys, params \in RefundParamsValues :
        Enter(p, Operation("Refund", caller, paymentID, idempotencyKey, params),
              CallArgs("POST", paymentsPath \o "/" \o paymentID \o "/refunds",
                       idempotencyKey, params, NilObj))

Capture(p) ==
    \E caller \in Callers, paymentID \in PaymentIDs, params \in CaptureParamsValues :
        Enter(p, Operation("Capture", caller, paymentID, "", params),
              CallArgs("POST", paymentsPath \o "/" \o paymentID \o "/captures",
                       "", params, NilObj))

\* the operation maps what the dispatcher returned and returns itself
EntityResult(operation, statusCode, err, payment) ==
    CASE operation = "Create" -> CreateResult(statusCode, err, payment)
      [] operation = "Void" ->
            [err |-> VoidResult(statusCode, err), payment |-> NoPayment]
      [] operation = "Refund" ->
            [err |-> RefundResult(statusCode, err), payment |-> NoPayment]
      [] operation = "Capture" ->
            [err |-> CaptureResult(statusCode, err), payment |-> NoPayment]

EntityReturn(p) ==
    /\ pc[p] = "returned"
    /\ op[p].name \in {"Create", "Void", "Refund", "Capture"}
    /\ out' = [out EXCEPT ![p] =
                 EntityResult(op[p].name, ret[p].statusCode, ret[p].callErr,
                              respObj[p])]
    /\ pc' = [pc EXCEPT ![p] = "done"]
    /\ UNCHANGED <<client, op, args, req, sent, doErr, resp, closed, decodes, respObj, ret>>

\* the operation has returned to the program: its frame is gone
Leave(p) ==
    /\ \/ pc[p] = "done"
       \/ pc[p] = "returned" /\ op[p].name = "Call"
    /\ pc' = [pc EXCEPT ![p] = "idle"]
    /\ op' = [op EXCEPT ![p] = NoOp]
    /\ args' = [args EXCEPT ![p] = NoArgs]
    /\ req' = [req EXCEPT ![p] = NoRequest]
    /\ sent' = [sent EXCEPT ![p] = <<>>]
    /\ doErr' = [doErr EXCEPT ![p] = NilErr]
    /\ resp' = [resp EXCEPT ![p] = NoResponse]
    /\ closed' = [closed EXCEPT ![p] = 0]
    /\ decodes' = [decodes EXCEPT ![p] = <<>>]
    /\ respObj' = [respObj EXCEPT ![p] = NilObj]
    /\ ret' = [ret EXCEPT ![p] = NoRet]
    /\ out' = [out EXCEPT ![p] = NoOut]
    /\ UNCHANGED client

----------------------------------------------------------------------------
(* Specification *)

Next ==
    \E p \in Procs :
        \/ NewClient(p)
        \/ Call(p)
        \/ CallPrepare(p)
        \/ CallDo(p)
        \/ CallFinish(p)
        \/ CallerMock(p)
        \/ Create(p)
        \/ Void(p)
        \/ Refund(p)
        \/ Capture(p)
        \/ EntityReturn(p)
        \/ Leave(p)

Spec == Init /\ [][Next]_vars

----------------------------------------------------------------------------
(* Concurrent callers.  Goroutines may be inside Client.Call at the same   *)
(* time on one Client; their steps interleave freely.  The arguments and   *)
(* the transport's answers are drawn from smaller sets than above.         *)

ConcurrentTargets == ResponseTargets
ConcurrentRequestObjects == { Obj("request", [Field |-> "request_value"]) }

\* the responses the transport gives to concurrent callers
ConcurrentResponses ==
    { r \in Responses :
        /\ r.StatusCode \in {StatusOK, StatusInternalServerError}
        /\ r.Body \in {BodyResponse, BodyEnvelope}
        /\ r.readErr = NilErr }

\* a goroutine calls client.Call while others may be inside Call
ConcurrentCall(p) ==
    /\ pc[p] = "idle"
    /\ \E reqObj \in ConcurrentRequestObjects, target \in ConcurrentTargets :
          /\ op' = [op EXCEPT ![p] = [name |-> "Call", caller |-> "client"]]
          /\ args' = [args EXCEPT ![p] =
                        CallArgs("POST", "/somepath", "idempotency_key",
                                 reqObj, target)]
          /\ respObj' = [respObj EXCEPT ![p] = target]
    /\ pc' = [pc EXCEPT ![p] = "call"]
    /\ UNCHANGED <<client, req, sent, doErr, resp, closed, decodes, ret, out>>

\* c.httpClient.Do(req) of a concurrent caller
ConcurrentDo(p) ==
    /\ CallDo(p)
    /\ resp'[p] \in ConcurrentResponses \cup {NoResponse}

ConcurrentNext ==
    \E p \in Procs :
        \/ ConcurrentCall(p)
        \/ CallPrepare(p)
        \/ ConcurrentDo(p)
        \/ CallFinish(p)
        \/ Leave(p)

ConcurrentSpec == Init /\ [][ConcurrentNext]_vars

----------------------------------------------------------------------------
(* Properties.  What the claims speak of, stated on a caller's frame.      *)

\* Client.Call has returned to the operation of caller p
CallReturned(p) == pc[p] \in {"returned", "done"} /\ op[p].caller = "client"

\* the transport answered p's request with a response
GotResponse(p) == resp[p] # NoResponse

\* the body of p's response is read, and is closed, without error
ReadOK(p) == resp[p].readErr = NilErr
CloseOK(p) == resp[p].closeErr = NilErr

\* the bodies that are JSON objects an ErrorResponse decodes from, and the
\* envelope each of them holds
DecodableEnvelopes == {BodyEnvelope, BodyResponse, BodyPayment}

ExpectedEnvelope(body) ==
    IF body = BodyEnvelope
    THEN Obj("ErrorResponse",
             [RequestID |-> "r1", ErrorType |-> "request_invalid",
              ErrorCodes |-> <<"c1">>])
    ELSE Obj("ErrorResponse",
             [RequestID |-> "", ErrorType |-> "", ErrorCodes |-> <<>>])

IsBusinessStatus(statusCode) ==
    /\ statusCode >= 400 /\ statusCode <= 499
    /\ statusCode \notin {401, 422, 429}

\* C2 as stated: for every response with a 4xx status other than 401, 422
\* and 429, Call returns the bare status with a nil error, decodes no error
\* envelope and does not write to the response target.
C2_Original ==
    \A p \in Procs :
        (CallReturned(p) /\ GotResponse(p) /\ IsBusinessStatus(resp[p].StatusCode))
        => /\ ret[p].statusCode = resp[p].StatusCode
           /\ ret[p].callErr = NilErr
           /\ decodes[p] = <<>>
           /\ respObj[p] = args[p].respObj

\* C2 amended: for every response with a 4xx status other than 401, 422 and
\* 429, Call returns the bare status, decodes no error envelope and does not
\* write to the response target; the error is nil when the body is read and
\* closed without error.
C2_BareStatus ==
    \A p \in Procs :
        (CallReturned(p) /\ GotResponse(p) /\ IsBusinessStatus(resp[p].StatusCode))
        => /\ ret[p].statusCode = resp[p].StatusCode
           /\ (ReadOK(p) /\ CloseOK(p)) => ret[p].callErr = NilErr
           /\ decodes[p] = <<>>
           /\ respObj[p] = args[p].respObj

C2_Witness ==
    \E p \in Procs :
        /\ CallReturned(p) /\ GotResponse(p) /\ ReadOK(p) /\ CloseOK(p)
        /\ resp[p].StatusCode = 404
        /\ args[p].respObj # NilObj
        /\ ret[p] = Returns(404, NilErr)

\* a Capture made through checkout.Client has returned
CaptureDone(p) ==
    pc[p] = "done" /\ op[p].name = "Capture" /\ op[p].caller = "client"

\* C3 as stated: a Capture made through Client.Call yields
\* ErrCaptureNotAllowed when the server answers 403, ErrPaymentNotFound when
\* it answers 404, nil when it answers 202 and UnknownError carrying the
\* status for any other status.
C3_Original ==
    \A p \in Procs :
        (CaptureDone(p) /\ GotResponse(p))
        => out[p].err =
             CASE resp[p].StatusCode = 403 -> ErrCaptureNotAllowed
               [] resp[p].StatusCode = 404 -> ErrPaymentNotFound
               [] resp[p].StatusCode = 202 -> NilErr
               [] OTHER -> UnknownError(resp[p].StatusCode)

\* C3 amended: a Capture made through Client.Call whose response body is read
\* and closed without error yields ErrCaptureNotAllowed on 403,
\* ErrPaymentNotFound on 404, nil on 202, the error Call returned (a
\* ServerError or an unmarshal error, never UnknownError) on 401, 422, 429
\* and every status >= 500, and UnknownError carrying the status on any
\* other status; when reading or closing the body fails it yields the error
\* Call returned.
C3_CaptureThroughCall ==
    \A p \in Procs :
        (CaptureDone(p) /\ GotResponse(p))
        => IF ReadOK(p) /\ CloseOK(p)
           THEN CASE resp[p].StatusCode = 403 -> out[p].err = ErrCaptureNotAllowed
                  [] resp[p].StatusCode = 404 -> out[p].err = ErrPaymentNotFound
                  [] resp[p].StatusCode = 202 -> out[p].err = NilErr
                  [] resp[p].StatusCode \in {401, 429} ->
                        out[p].err = ServerError(resp[p].StatusCode, NilResponse)
                  [] resp[p].StatusCode >= 500 \/ resp[p].StatusCode = 422 ->
                        /\ out[p].err = ret[p].callErr
                        /\ out[p].err.kind \in {"ServerError", "wrapped"}
                  [] OTHER -> out[p].err = UnknownError(resp[p].StatusCode)
           ELSE /\ out[p].err = ret[p].callErr
                /\ out[p].err.kind \in {"raw", "wrapped"}

C3_Witness ==
    \E p \in Procs :
        /\ CaptureDone(p) /\ GotResponse(p) /\ ReadOK(p) /\ CloseOK(p)
        /\ resp[p].StatusCode = 403
        /\ out[p].err = ErrCaptureNotAllowed

\* C4: when the transport returns an error, Call returns status 0 and a
\* non-nil error that wraps the transport's error (its cause is that error);
\* nothing is decoded, the response target is not written, no body is closed.
C4_TransportError ==
    \A p \in Procs :
        (CallReturned(p) /\ doErr[p] # NilErr)
        => /\ ret[p].statusCode = 0
           /\ ret[p].callErr # NilErr
           /\ ret[p].callErr.kind = "wrapped"
           /\ Cause(ret[p].callErr) = doErr[p]
           /\ decodes[p] = <<>>
           /\ respObj[p] = args[p].respObj
           /\ resp[p] = NoResponse
           /\ closed[p] = 0

C4_Witness ==
    \E p \in Procs :
        /\ CallReturned(p)
        /\ doErr[p] = TransportError
        /\ Len(sent[p]) = 1
        /\ ret[p].statusCode = 0
        /\ Cause(ret[p].callErr) = TransportError

\* the bodies that are JSON a response target decodes from without error,
\* and the value a target holds after decoding each of them
ValidForTarget == {BodyEnvelope, BodyResponse, BodyPayment}

ExpectedTarget(body, target) ==
    CASE target.type = "response" /\ body = BodyResponse ->
            Obj("response", [Field |-> "response_value"])
      [] target.type = "Payment" /\ body = BodyPayment ->
            Obj("Payment", [ID |-> "pay_1", Status |-> "Authorized", Approved |-> TRUE])
      [] OTHER -> target

\* C5 as stated: for every response with status < 400 whose body is valid
\* JSON for the target, Call with a response target decodes the body into
\* the target and returns the status with a nil error; with a nil target it
\* returns the status with a nil error and decodes nothing.
C5_Original ==
    \A p \in Procs :
        ( /\ CallReturned(p) /\ GotResponse(p) /\ ReadOK(p)
          /\ resp[p].StatusCode < 400
          /\ resp[p].Body \in ValidForTarget )
        => /\ ret[p] = Returns(resp[p].StatusCode, NilErr)
           /\ IF args[p].respObj # NilObj
              THEN /\ respObj[p] = ExpectedTarget(resp[p].Body, args[p].respObj)
                   /\ decodes[p] = <<"respObj">>
              ELSE /\ respObj[p] = NilObj
                   /\ decodes[p] = <<>>

\* C5 amended: for every response with status < 400 whose body is valid JSON
\* for the target, Call with a response target decodes the body into the
\* target, with a nil target it decodes nothing, and it returns the status;
\* the error is nil when the body is closed without error.
C5_DecodeIntoTarget ==
    \A p \in Procs :
        ( /\ CallReturned(p) /\ GotResponse(p) /\ ReadOK(p)
          /\ resp[p].StatusCode < 400
          /\ resp[p].Body \in ValidForTarget )
        => /\ ret[p].statusCode = resp[p].StatusCode
           /\ CloseOK(p) => ret[p].callErr = NilErr
           /\ IF args[p].respObj # NilObj
              THEN /\ respObj[p] = ExpectedTarget(resp[p].Body, args[p].respObj)
                   /\ decodes[p] = <<"respObj">>
              ELSE /\ respObj[p] = NilObj
                   /\ decodes[p] = <<>>

C5_Witness ==
    \E p \in Procs :
        /\ CallReturned(p) /\ GotResponse(p) /\ ReadOK(p) /\ CloseOK(p)
        /\ resp[p].StatusCode = 200
        /\ resp[p].Body = BodyResponse
        /\ args[p].respObj = ZeroResponse
        /\ respObj[p].val.Field = "response_value"
        /\ ret[p] = Returns(200, NilErr)

\* C6: the request Call hands to the transport carries the
\* Cko-Idempotency-Key header if and only if the idempotencyKey argument is
\* not empty, and the header's value then equals that argument.
C6_IdempotencyHeader ==
    \A p \in Procs :
        \A i \in 1..Len(sent[p]) :
            /\ ("Cko-Idempotency-Key" \in DOMAIN sent[p][i].Header)
                 <=> (args[p].idempotencyKey # "")
            /\ ("Cko-Idempotency-Key" \in DOMAIN sent[p][i].Header)
                 => sent[p][i].Header["Cko-Idempotency-Key"] = args[p].idempotencyKey

C6_Witness ==
    \E p \in Procs :
        /\ Len(sent[p]) = 1
        /\ args[p].idempotencyKey = "idempotency_key"
        /\ HeaderGet(sent[p][1].Header, "Cko-Idempotency-Key") = "idempotency_key"

\* the JSON encoding of the request objects the callers pass
ExpectedJSON(reqObj) ==
    CASE reqObj = Obj("request", [Field |-> "request_value"]) ->
            "{\"field\":\"request_value\"}"
      [] reqObj.type = "CreateParams" /\ ~reqObj.nilptr ->
            "{\"source\":{\"type\":\"id\",\"id\":\"src_1\"},\"amount\":2000,\"currency\":\"USD\"}"
      [] reqObj.type = "VoidParams" /\ ~reqObj.nilptr ->
            "{\"reference\":\"ref_1\"}"
      [] reqObj.type = "RefundParams" /\ ~reqObj.nilptr ->
            "{\"amount\":100}"
      [] reqObj.type = "CaptureParams" /\ ~reqObj.nilptr ->
            "{\"reference\":\"ref_1\"}"
      [] OTHER -> "null"

\* C7: for every Call with a non-nil request object the body of the request
\* handed to the transport is the JSON encoding of that object; with a nil
\* request object the request has no body.
C7_RequestBody ==
    \A p \in Procs :
        \A i \in 1..Len(sent[p]) :
            IF args[p].reqObj = NilObj
            THEN sent[p][i].Body = NoBody
            ELSE /\ sent[p][i].Body # NoBody
                 /\ sent[p][i].Body.bytes = ExpectedJSON(args[p].reqObj)

C7_Witness ==
    \E p \in Procs :
        /\ Len(sent[p]) = 1
        /\ args[p].reqObj = Obj("request", [Field |-> "request_value"])
        /\ sent[p][1].Body.bytes = "{\"field\":\"request_value\"}"

\* the not-allowed error of each entity operation
NotAllowedError(operation) ==
    CASE operation = "Void" -> ErrVoidNotAllowed
      [] operation = "Refund" -> ErrRefundNotAllowed
      [] operation = "Capture" -> ErrCaptureNotAllowed

\* C8: Void, Refund and Capture, after a dispatch that returned no error,
\* map the returned status: 202 to nil, 403 to the operation's own
\* not-allowed error, 404 to ErrPaymentNotFound and every other status to
\* UnknownError carrying that status.
C8_StatusMapping ==
    \A p \in Procs :
        ( /\ pc[p] = "done"
          /\ op[p].name \in {"Void", "Refund", "Capture"}
          /\ ret[p].callErr = NilErr )
        => out[p].err =
             CASE ret[p].statusCode = 202 -> NilErr
               [] ret[p].statusCode = 403 -> NotAllowedError(op[p].name)
               [] ret[p].statusCode = 404 -> ErrPaymentNotFound
               [] OTHER -> UnknownError(ret[p].statusCode)

C8_Witness ==
    \E p \in Procs :
        /\ pc[p] = "done"
        /\ op[p].name = "Refund"
        /\ ret[p] = Returns(403, NilErr)
        /\ out[p].err = ErrRefundNotAllowed

\* the causes the claim lists: transport, marshal, read and unmarshal errors
ListedCauses ==
    { TransportError, UnsupportedTypeError, ReadError, SyntaxError,
      UnmarshalTypeError }

\* C9 as stated: every non-nil error Call returns is an error wrapping a
\* transport, marshal, read or unmarshal cause, or a ServerError; no
\* unwrapped raw error is ever returned.
C9_Original ==
    \A p \in Procs :
        (CallReturned(p) /\ ret[p].callErr # NilErr)
        => \/ /\ ret[p].callErr.kind = "wrapped"
              /\ Cause(ret[p].callErr) \in ListedCauses
           \/ ret[p].callErr.kind = "ServerError"

\* C9 amended: every non-nil error Call returns is an error wrapping a
\* marshal, request-construction, transport, read or unmarshal cause, or a
\* ServerError, or the unwrapped error of closing the response body.
C9_ErrorKinds ==
    \A p \in Procs :
        (CallReturned(p) /\ ret[p].callErr # NilErr)
        => \/ /\ ret[p].callErr.kind = "wrapped"
              /\ Cause(ret[p].callErr) \in ListedCauses \cup {InvalidMethodError}
           \/ ret[p].callErr.kind = "ServerError"
           \/ /\ GotResponse(p)
              /\ ~CloseOK(p)
              /\ ret[p].callErr = resp[p].closeErr

C9_Witness ==
    \E p \in Procs :
        /\ CallReturned(p) /\ GotResponse(p)
        /\ resp[p].StatusCode = 500
        /\ resp[p].Body = BodyEnvelope
        /\ ret[p].callErr = CloseError

\* the request objects json.Marshal fails on
Unmarshalable(reqObj) ==
    \/ reqObj.type = "chan"
    \/ reqObj = Obj("VoidParams", [Reference |-> "", Metadata |-> BadMetadata])

\* C10: Call performs no retries: the transport's Do is invoked at most once
\* per Call, and exactly once when marshaling the request and constructing
\* it succeed, whatever status or error the transport returns.
C10_NoRetries ==
    \A p \in Procs :
        /\ Len(sent[p]) <= 1
        /\ CallReturned(p)
             => (Len(sent[p]) = 1
                   <=> (~Unmarshalable(args[p].reqObj) /\ args[p].method # "BAD METHOD"))

C10_Witness ==
    \E p \in Procs :
        /\ CallReturned(p) /\ GotResponse(p)
        /\ resp[p].StatusCode = 503
        /\ Len(sent[p]) = 1

\* what Call returns and leaves in the response target, as a function of
\* the client, the call's own arguments and the transport's answer to it
CallOutcome(c, a, transportErr, response) ==
    LET b == CallRequestBody(a.reqObj)
        r == CallRequest(c, a.method, a.path, a.idempotencyKey, b.reqBody)
    IN  IF b.err # NilErr THEN <<Returns(0, b.err), a.respObj>>
        ELSE IF r.err # NilErr THEN <<Returns(0, r.err), a.respObj>>
        ELSE IF transportErr # NilErr
        THEN <<Returns(0, Wrap(transportErr, "failed to do request")), a.respObj>>
        ELSE LET f == CallResponse(response, a.respObj)
             IN  <<Returns(f.statusCode, f.callErr), f.respObj>>

\* C11: calls are independent and Call never mutates the Client: no step of
\* any interleaving of Calls changes the client's endpoint, secret key or
\* transport, and what a Call returns (and leaves in its response target)
\* is determined by the client, its own arguments and the transport's answer
\* to its own request, whatever earlier or concurrent Calls did.
C11_Independent ==
    /\ [][client' = client]_vars
    /\ [](\A p \in Procs :
            CallReturned(p)
            => <<ret[p], respObj[p]>> =
                 CallOutcome(client, args[p], doErr[p], resp[p]))

C11_Witness ==
    \E p, q \in Procs :
        /\ p # q
        /\ CallReturned(p) /\ CallReturned(q)
        /\ GotResponse(p) /\ GotResponse(q)
        /\ resp[p].StatusCode = 200 /\ resp[q].StatusCode = 500
        /\ ret[p] = Returns(200, NilErr)
        /\ ret[q].statusCode = 500 /\ ret[q].callErr.kind = "ServerError"

\* New has returned the client to caller p
Constructed(p) == pc[p] = "done" /\ op[p].name = "New"

\* the argument of the last option of the given kind, or the default
LastArg(options, kind, default) ==
    LET given == { i \in 1..Len(options) : options[i].option = kind }
    IN  IF given = {} THEN default
        ELSE options[CHOOSE i \in given : \A j \in given : j <= i].arg

\* C12: New returns a client whose transport is http.DefaultClient and whose
\* endpoint is the live endpoint unless overridden (and whose secret key is
\* empty unless given); every option sets its own field only, and of several
\* options of one kind the last in argument order decides.
C12_NewOptions ==
    \A p \in Procs :
        Constructed(p)
        => /\ client.httpClient =
                LastArg(args[p].options, "OptHTTPClient", "http.DefaultClient")
           /\ client.endpoint =
                LastArg(args[p].options, "OptEndpoint", "https://api.checkout.com")
           /\ client.secretKey = LastArg(args[p].options, "OptSecretKey", "")

C12_Witness ==
    \E p \in Procs :
        /\ Constructed(p)
        /\ args[p].options =
             <<OptSecretKey("secret_key"), OptSecretKey("your_secret_key")>>
        /\ client.secretKey = "your_secret_key"
        /\ client.httpClient = "http.DefaultClient"
        /\ client.endpoint = "https://api.checkout.com"

\* C13: every request Call hands to the transport uses the caller's method,
\* has the URL made of the configured endpoint followed by the path (the
\* default endpoint and "/somepath" give "https://api.checkout.com/somepath"),
\* has Content-Type application/json and has the Authorization header equal
\* to the configured secret key, verbatim.
C13_RequestLine ==
    \A p \in Procs :
        \A i \in 1..Len(sent[p]) :
            /\ sent[p][i].Method = args[p].method
            /\ sent[p][i].URL = client.endpoint \o args[p].path
            /\ (client.endpoint = EndpointLive /\ args[p].path = "/somepath")
                 => sent[p][i].URL = "https://api.checkout.com/somepath"
            /\ "Content-Type" \in DOMAIN sent[p][i].Header
            /\ sent[p][i].Header["Content-Type"] = "application/json"
            /\ "Authorization" \in DOMAIN sent[p][i].Header
            /\ sent[p][i].Header["Authorization"] = client.secretKey

C13_Witness ==
    \E p \in Procs :
        /\ Len(sent[p]) = 1
        /\ client.secretKey = "secret_key"
        /\ client.endpoint = EndpointLive
        /\ args[p].method = "POST"
        /\ args[p].path = "/somepath"
        /\ sent[p][1].Method = "POST"
        /\ sent[p][1].URL = "https://api.checkout.com/somepath"
        /\ sent[p][1].Header["Authorization"] = "secret_key"

\* C14: on every path of Call the returned status code is the status of the
\* transport's response whenever there is a response (body-read failures,
\* decode failures and structured errors included), and it is 0 exactly when
\* Call fails before a response is obtained: on a marshal failure, a
\* request-construction failure or a transport error.
C14_StatusCode ==
    \A p \in Procs :
        CallReturned(p)
        => /\ GotResponse(p) => ret[p].statusCode = resp[p].StatusCode
           /\ ret[p].statusCode = 0 <=> ~GotResponse(p)
           /\ ~GotResponse(p)
                => /\ ret[p].callErr # NilErr
                   /\ \/ Unmarshalable(args[p].reqObj)
                      \/ args[p].method = "BAD METHOD"
                      \/ doErr[p] # NilErr

C14_Witness ==
    \E p \in Procs :
        /\ CallReturned(p) /\ GotResponse(p)
        /\ resp[p].StatusCode = 500
        /\ resp[p].readErr = ReadError
        /\ ret[p].statusCode = 500
        /\ ret[p].callErr # NilErr

\* C15: whenever Call returns a ServerError, the ServerError's StatusCode is
\* the status code the same Call returns and is >= 400; a ServerError never
\* comes with a status below 400 nor with status 0.
C15_ServerErrorStatus ==
    \A p \in Procs :
        (CallReturned(p) /\ ret[p].callErr.kind = "ServerError")
        => /\ ret[p].callErr.StatusCode = ret[p].statusCode
           /\ ret[p].statusCode >= 400
           /\ GotResponse(p)
           /\ ret[p].statusCode = resp[p].StatusCode

C15_Witness ==
    \E p \in Procs :
        /\ CallReturned(p) /\ GotResponse(p)
        /\ resp[p].StatusCode = 429
        /\ ret[p].statusCode = 429
        /\ ret[p].callErr.kind = "ServerError"
        /\ ret[p].callErr.StatusCode = 429

\* Create has returned to caller p
CreateDone(p) == pc[p] = "done" /\ op[p].name = "Create"

\* C16: Create returns the decoded payment with a nil error if and only if
\* the dispatcher returned a nil error and the status is 201 or 202; for
\* every other status with a nil dispatcher error (200, 403 and 404 among
\* them) it returns a nil payment and UnknownError carrying that status; it
\* never returns a payment together with an error, nor neither of them.
C16_CreateResult ==
    \A p \in Procs :
        CreateDone(p)
        => /\ (out[p].err = NilErr /\ out[p].payment # NoPayment)
                <=> (ret[p].callErr = NilErr /\ ret[p].statusCode \in {201, 202})
           /\ (ret[p].callErr = NilErr /\ ret[p].statusCode \in {201, 202})
                => out[p].payment = respObj[p]
           /\ (ret[p].callErr = NilErr /\ ret[p].statusCode \notin {201, 202})
                => /\ out[p].payment = NoPayment
                   /\ out[p].err = UnknownError(ret[p].statusCode)
           /\ ~(out[p].payment # NoPayment /\ out[p].err # NilErr)
           /\ ~(out[p].payment = NoPayment /\ out[p].err = NilErr)

C16_Witness ==
    \E p \in Procs :
        /\ CreateDone(p) /\ op[p].caller = "client" /\ GotResponse(p)
        /\ resp[p].StatusCode = 201
        /\ resp[p].Body = BodyPayment
        /\ out[p].err = NilErr
        /\ out[p].payment.val.ID = "pay_1"
        /\ out[p].payment.val.Approved

\* caller p is in, or has returned from, Client.Call
InsideCall(p) == pc[p] # "idle" /\ op[p].caller = "client"

\* C17: if marshaling the request object fails, Call returns status 0 and an
\* error wrapping the marshal failure, and the transport is never invoked
\* for that Call: no request is built or sent, no response exists.
C17_MarshalFailure ==
    \A p \in Procs :
        (InsideCall(p) /\ Unmarshalable(args[p].reqObj))
        => /\ sent[p] = <<>>
           /\ req[p] = NoRequest
           /\ resp[p] = NoResponse /\ doErr[p] = NilErr
           /\ pc[p] \in {"call", "returned", "done"}
           /\ CallReturned(p)
                => /\ ret[p].statusCode = 0
                   /\ ret[p].callErr.kind = "wrapped"
                   /\ ret[p].callErr.msg = "failed to marshal request body"
                   /\ Cause(ret[p].callErr) = UnsupportedTypeError

C17_Witness ==
    \E p \in Procs :
        /\ CallReturned(p)
        /\ args[p].reqObj = Obj("chan", NoVal)
        /\ ret[p].statusCode = 0
        /\ Cause(ret[p].callErr) = UnsupportedTypeError
        /\ sent[p] = <<>>

\* the bodies no decode target of the model decodes from without error
UndecodableBodies == {BodyMismatch, BodyEmpty}

\* the causes json.Unmarshal fails with
DecodeFailures == {SyntaxError, UnmarshalTypeError}

\* Call decoded the body of p's response and the decoding failed: the error
\* envelope for a status >= 500 or 422, the response target for a status < 400
DecodeFailed(p) ==
    /\ CallReturned(p) /\ GotResponse(p) /\ ReadOK(p)
    /\ resp[p].Body \in UndecodableBodies
    /\ \/ resp[p].StatusCode >= 500
       \/ resp[p].StatusCode = 422
       \/ resp[p].StatusCode < 400 /\ args[p].respObj # NilObj

\* C18 as stated: when decoding the response body fails, Call returns the
\* response's status together with an error wrapping the decode failure,
\* never a ServerError and never a nil error.
C18_Original ==
    \A p \in Procs :
        DecodeFailed(p)
        => /\ ret[p].statusCode = resp[p].StatusCode
           /\ ret[p].callErr.kind = "wrapped"
           /\ Cause(ret[p].callErr) \in DecodeFailures

\* C18 amended: when decoding the response body fails, Call returns the
\* response's status together with a non-nil error that is never a
\* ServerError: the error wrapping the decode failure when the body is closed
\* without error, the close error when closing the body fails.
C18_DecodeFailure ==
    \A p \in Procs :
        DecodeFailed(p)
        => /\ ret[p].statusCode = resp[p].StatusCode
           /\ ret[p].callErr # NilErr
           /\ ret[p].callErr.kind # "ServerError"
           /\ IF CloseOK(p)
              THEN /\ ret[p].callErr.kind = "wrapped"
                   /\ Cause(ret[p].callErr) \in DecodeFailures
              ELSE ret[p].callErr = resp[p].closeErr

C18_Witness ==
    \E p \in Procs :
        /\ DecodeFailed(p) /\ CloseOK(p)
        /\ resp[p].StatusCode = 200
        /\ resp[p].Body = BodyMismatch
        /\ ret[p].statusCode = 200
        /\ Cause(ret[p].callErr) = UnmarshalTypeError

\* an entity operation has returned to caller p
EntityDone(p) ==
    pc[p] = "done" /\ op[p].name \in {"Create", "Void", "Refund", "Capture"}

\* the errors the status switches of the entity operations produce
SwitchErrors(statusCode) ==
    { ErrPaymentNotFound, ErrVoidNotAllowed, ErrRefundNotAllowed,
      ErrCaptureNotAllowed, UnknownError(statusCode) }

\* C19: when the dispatcher returns a non-nil error, each of Create, Void,
\* Refund and Capture returns exactly that error, whatever the status code
\* is (Create with a nil payment); an error of the status switch is returned
\* only when the dispatcher's error is nil.
C19_DispatcherError ==
    \A p \in Procs :
        EntityDone(p)
        => /\ ret[p].callErr # NilErr
                => /\ out[p].err = ret[p].callErr
                   /\ out[p].payment = NoPayment
           /\ out[p].err \in SwitchErrors(ret[p].statusCode)
                => ret[p].callErr = NilErr

C19_Witness ==
    \E p \in Procs :
        /\ EntityDone(p) /\ op[p].name = "Void" /\ op[p].caller = "mock"
        /\ ret[p] = Returns(403, NewError("caller_error"))
        /\ out[p].err = NewError("caller_error")

\* C20: on every path of Call after the transport returned a response the
\* response body is closed exactly once before Call returns (and never
\* without a response); if closing fails, the close error is the error Call
\* returns, whatever it was about to return, and the returned status is
\* still the response's status.
C20_BodyClosedOnce ==
    \A p \in Procs :
        /\ closed[p] <= 1
        /\ InsideCall(p) /\ ~CallReturned(p) => closed[p] = 0
        /\ CallReturned(p)
             => /\ closed[p] = IF GotResponse(p) THEN 1 ELSE 0
                /\ (GotResponse(p) /\ ~CloseOK(p))
                     => /\ ret[p].callErr = resp[p].closeErr
                        /\ ret[p].statusCode = resp[p].StatusCode

C20_Witness ==
    \E p \in Procs :
        /\ CallReturned(p) /\ GotResponse(p)
        /\ resp[p].StatusCode = 200
        /\ resp[p].Body = BodyResponse
        /\ resp[p].readErr = NilErr
        /\ resp[p].closeErr = CloseError
        /\ closed[p] = 1
        /\ ret[p] = Returns(200, CloseError)

\* Call has returned on a response with status 401 or 429
BareStatusReturned(p) ==
    /\ CallReturned(p) /\ GotResponse(p)
    /\ resp[p].StatusCode \in {401, 429}

\* C21 as stated: for a response with status 401 or 429 Call returns a
\* ServerError with that status, whether or not the body is a decodable
\* envelope, and never an unmarshal error.
C21_Original ==
    \A p \in Procs :
        BareStatusReturned(p)
        => /\ ret[p].callErr.kind = "ServerError"
           /\ ret[p].callErr.StatusCode = resp[p].StatusCode

\* C21 amended: for a response with status 401 or 429 the outcome of Call
\* does not depend on the content of the body: nothing is decoded, no
\* unmarshal error is returned, and when the body is read and closed without
\* error Call returns that status and a ServerError with that status and no
\* envelope, whatever the body holds; when reading or closing the body fails
\* it returns the error of the read (wrapped) or of the close.
C21_BodyIgnored ==
    \A p \in Procs :
        BareStatusReturned(p)
        => /\ ret[p].statusCode = resp[p].StatusCode
           /\ decodes[p] = <<>>
           /\ respObj[p] = args[p].respObj
           /\ Cause(ret[p].callErr) \notin DecodeFailures
           /\ ret[p].callErr =
                IF ~CloseOK(p) THEN resp[p].closeErr
                ELSE IF ~ReadOK(p)
                     THEN Wrap(resp[p].readErr, "failed to read response body")
                     ELSE ServerError(resp[p].StatusCode, NilResponse)

C21_Witness ==
    \E p \in Procs :
        /\ BareStatusReturned(p) /\ ReadOK(p) /\ CloseOK(p)
        /\ resp[p].StatusCode = 429
        /\ resp[p].Body = BodyEmpty
        /\ ret[p] = Returns(429, ServerError(429, NilResponse))

\* caller p is in, or has returned from, an entity operation
InsideEntity(p) ==
    pc[p] # "idle" /\ op[p].name \in {"Create", "Void", "Refund", "Capture"}

\* the path each entity operation dispatches on
ExpectedPath(operation, paymentID) ==
    CASE operation = "Create" -> "/payments"
      [] operation = "Void" -> "/payments/" \o paymentID \o "/voids"
      [] operation = "Refund" -> "/payments/" \o paymentID \o "/refunds"
      [] operation = "Capture" -> "/payments/" \o paymentID \o "/captures"

\* C22: Void and Capture always dispatch with an empty idempotency key, so
\* their requests never carry the idempotency header; Create and Refund hand
\* the caller's idempotency key on to the dispatcher unchanged; all four
\* dispatch with method POST, on /payments, /payments/{id}/voids,
\* /payments/{id}/refunds and /payments/{id}/captures respectively.
C22_EntityDispatch ==
    \A p \in Procs :
        InsideEntity(p)
        => /\ args[p].method = "POST"
           /\ args[p].path = ExpectedPath(op[p].name, op[p].paymentID)
           /\ op[p].name \in {"Void", "Capture"}
                => /\ args[p].idempotencyKey = ""
                   /\ \A i \in 1..Len(sent[p]) :
                         "Cko-Idempotency-Key" \notin DOMAIN sent[p][i].Header
           /\ op[p].name \in {"Create", "Refund"}
                => args[p].idempotencyKey = op[p].idempotencyKey
           /\ \A i \in 1..Len(sent[p]) :
                 /\ sent[p][i].Method = "POST"
                 /\ sent[p][i].URL =
                      client.endpoint \o ExpectedPath(op[p].name, op[p].paymentID)

C22_Witness ==
    \E p \in Procs :
        /\ InsideEntity(p) /\ op[p].name = "Refund"
        /\ op[p].paymentID = "pay_2"
        /\ op[p].idempotencyKey = "idempotency_key"
        /\ client.endpoint = EndpointLive
        /\ Len(sent[p]) = 1
        /\ sent[p][1].URL = "https://api.checkout.com/payments/pay_2/refunds"
        /\ sent[p][1].Header["Cko-Idempotency-Key"] = "idempotency_key"

\* Call has returned on a response whose body could not be read
ReadFailed(p) == CallReturned(p) /\ GotResponse(p) /\ ~ReadOK(p)

\* C23 as stated: if reading the response body fails, Call returns the
\* response's status with an error wrapping the read failure, for every
\* status, and neither decodes an envelope nor writes to the response target.
C23_Original ==
    \A p \in Procs :
        ReadFailed(p)
        => /\ ret[p].statusCode = resp[p].StatusCode
           /\ ret[p].callErr.kind = "wrapped"
           /\ Cause(ret[p].callErr) = resp[p].readErr
           /\ decodes[p] = <<>>
           /\ respObj[p] = args[p].respObj

\* C23 amended: if reading the response body fails, Call returns the
\* response's status, for every status, decodes no envelope and does not
\* write to the response target; the error wraps the read failure when the
\* body is closed without error and is the close error when closing fails.
C23_ReadFailure ==
    \A p \in Procs :
        ReadFailed(p)
        => /\ ret[p].statusCode = resp[p].StatusCode
           /\ IF CloseOK(p)
              THEN /\ ret[p].callErr.kind = "wrapped"
                   /\ ret[p].callErr.msg = "failed to read response body"
                   /\ Cause(ret[p].callErr) = resp[p].readErr
              ELSE ret[p].callErr = resp[p].closeErr
           /\ decodes[p] = <<>>
           /\ respObj[p] = args[p].respObj

C23_Witness ==
    \E p \in Procs :
        /\ ReadFailed(p) /\ CloseOK(p)
        /\ resp[p].StatusCode = 422
        /\ resp[p].Body = BodyEnvelope
        /\ args[p].respObj # NilObj
        /\ ret[p].statusCode = 422
        /\ Cause(ret[p].callErr) = ReadError
        /\ decodes[p] = <<>>

====
